---- MODULE Spec2Model ----
(***************************************************************************)
(* Model of the emotion-detection web application:                         *)
(*   EmotionDetection/emotion_detection.py  emotion_detector               *)
(*   server.py                              index, emotion_detection_view  *)
(*   test_emotion_detection.py              direct calls of the client     *)
(*                                                                         *)
(* Python values are tagged records, so that Python's dynamic typing (a    *)
(* number where a dict is expected, None where a number is expected) is    *)
(* visible to the model:                                                   *)
(*   [none |-> TRUE]  None          [int |-> n]   a number                 *)
(*   [str |-> s]      a str         [text |-> t]  a str holding characters *)
(*   [dict |-> f]     a dict        [list |-> q]  a list                   *)
(***************************************************************************)
EXTENDS Integers, Sequences, FiniteSets, TLC

VARIABLES pending, log

vars == <<pending, log>>

\* Largest score the remote service reports (scores are 0..MaxScore).
MaxScore == 2
\* Longest statement a user submits, in characters.
MaxStatement == 1

PyNone == [none |-> TRUE]
PyInt(n) == [int |-> n]
PyStr(s) == [str |-> s]
PyText(t) == [text |-> t]
PyDict(f) == [dict |-> f]
PyList(q) == [list |-> q]

IsNone(v) == "none" \in DOMAIN v
IsInt(v) == "int" \in DOMAIN v
IsText(v) == "text" \in DOMAIN v
IsDict(v) == "dict" \in DOMAIN v
IsList(v) == "list" \in DOMAIN v

\* Python truthiness: None, the empty str, the empty list and the empty dict
\* are false.
Truthy(v) ==
    IF IsNone(v) THEN FALSE
    ELSE IF IsText(v) THEN Len(v.text) > 0
    ELSE IF IsList(v) THEN Len(v.list) > 0
    ELSE IF IsDict(v) THEN DOMAIN v.dict # {}
    ELSE IF IsInt(v) THEN v.int # 0
    ELSE TRUE

\* The keys of emotion_scores, in the insertion order of the dict literal.
EmotionKeys == <<"anger", "disgust", "fear", "joy", "sadness">>
KeySet == {EmotionKeys[i] : i \in 1..Len(EmotionKeys)}

(***************************************************************************)
(* json.loads on the characters of a JSON document.  A document is a       *)
(* sequence of tokens: punctuation, a number, null, or a quoted string.    *)
(***************************************************************************)
P(c) == [p |-> c]
N(n) == [n |-> n]
K(s) == [s |-> s]
NullTok == [nul |-> TRUE]

IsP(t, c) == "p" \in DOMAIN t /\ t.p = c
IsK(t) == "s" \in DOMAIN t
IsScalar(t) == "n" \in DOMAIN t \/ "nul" \in DOMAIN t \/ "s" \in DOMAIN t
ScalarOf(t) ==
    IF "n" \in DOMAIN t THEN PyInt(t.n)
    ELSE IF "s" \in DOMAIN t THEN PyStr(t.s)
    ELSE PyNone

Decoded(v) == [ok |-> TRUE, val |-> v]
JSONDecodeError == [ok |-> FALSE, val |-> PyNone]

\* The members of an object from position i on: key ':' value, then ','
\* and another member, or '}' as the last token.  A repeated key keeps its
\* last value.
RECURSIVE ParseMembers(_, _, _)
ParseMembers(toks, i, acc) ==
    IF i + 3 > Len(toks) THEN JSONDecodeError
    ELSE IF ~(IsK(toks[i]) /\ IsP(toks[i + 1], ":") /\ IsScalar(toks[i + 2]))
    THEN JSONDecodeError
    ELSE LET acc2 == (toks[i].s :> ScalarOf(toks[i + 2])) @@ acc
         IN  IF IsP(toks[i + 3], "}")
             THEN IF i + 3 = Len(toks) THEN Decoded(PyDict(acc2))
                  ELSE JSONDecodeError
             ELSE IF IsP(toks[i + 3], ",")
             THEN ParseMembers(toks, i + 4, acc2)
             ELSE JSONDecodeError

json_loads(toks) ==
    IF Len(toks) = 0 THEN JSONDecodeError
    ELSE IF Len(toks) = 1
    THEN IF IsScalar(toks[1]) THEN Decoded(ScalarOf(toks[1]))
         ELSE JSONDecodeError
    ELSE IF IsP(toks[1], "[")
    THEN IF Len(toks) = 2 /\ IsP(toks[2], "]") THEN Decoded(PyList(<<>>))
         ELSE JSONDecodeError
    ELSE IF IsP(toks[1], "{")
    THEN IF IsP(toks[2], "}")
         THEN IF Len(toks) = 2 THEN Decoded(PyDict(<<>>))
              ELSE JSONDecodeError
         ELSE ParseMembers(toks, 2, <<>>)
    ELSE JSONDecodeError

(***************************************************************************)
(* EmotionDetection/emotion_detection.py                                   *)
(***************************************************************************)
url == "https://sn-watson-emotion.labs.skills.network/v1/watson.runtime.nlp.v1/NlpService/EmotionPredict"
headers == [model_id |-> "emotion_aggregated-workflow_lang_en_stock"]
payload(text_to_analyze) == [raw_document |-> [text |-> text_to_analyze]]

\* One requests.post call: what goes out on the wire.
post(text_to_analyze) ==
    [url |-> url, headers |-> headers, json |-> payload(text_to_analyze)]

\* raise_for_status taken to reject server errors only.
raise_for_status_server_only(status_code) ==
    status_code >= 500 /\ status_code < 600

\* Response.raise_for_status raises HTTPError for 4xx and 5xx and for
\* nothing else.
raise_for_status(status_code) == status_code >= 400 /\ status_code < 600

\* How a call of emotion_detector ends: it returns a dict or raises.  sent
\* holds the outbound calls it made, json_read whether response.json() ran.
Return(result, sent, json_read) ==
    [ret |-> result, sent |-> sent, json_read |-> json_read]
Raise(exc, sent, json_read) ==
    [exc |-> exc, sent |-> sent, json_read |-> json_read]

Returned(out) == "ret" \in DOMAIN out
Raised(out) == "exc" \in DOMAIN out

\* dict.get whose default is a counter kept between calls.
get_default_from_log(emotion_results, key) ==
    IF key \in DOMAIN emotion_results THEN emotion_results[key]
    ELSE PyInt(Len(log))

\* dict.get(key, 0)
get(emotion_results, key) ==
    IF key \in DOMAIN emotion_results THEN emotion_results[key] ELSE PyInt(0)

emotion_scores(emotion_results) ==
    [key \in KeySet |-> get(emotion_results, key)]

\* max that lets a later key of equal score replace the best so far.
RECURSIVE max_from_last(_, _, _)
max_from_last(scores, i, best) ==
    IF i > Len(EmotionKeys) THEN best
    ELSE max_from_last(scores, i + 1,
                       IF scores[EmotionKeys[i]].int >= scores[best].int
                       THEN EmotionKeys[i] ELSE best)

\* max(emotion_scores, key=emotion_scores.get): the keys are visited in
\* insertion order and a key replaces the best so far only when its score
\* is strictly greater.
RECURSIVE max_from(_, _, _)
max_from(scores, i, best) ==
    IF i > Len(EmotionKeys) THEN best
    ELSE max_from(scores, i + 1,
                  IF scores[EmotionKeys[i]].int > scores[best].int
                  THEN EmotionKeys[i] ELSE best)

dominant_emotion(scores) == max_from(scores, 2, EmotionKeys[1])

\* Every score takes part in a comparison of max; None (and, next to a
\* number, a str) is not orderable and makes max raise TypeError.
Orderable(scores) == \A key \in KeySet : IsInt(scores[key])

\* build_result that treats an emotion object with none of the five keys as
\* an invalid text.
build_result_none_when_empty(emotion_results, sent) ==
    IF ~IsDict(emotion_results) THEN Raise("AttributeError", sent, TRUE)
    ELSE IF DOMAIN emotion_results.dict \cap KeySet = {}
    THEN Return([anger |-> PyNone, disgust |-> PyNone, fear |-> PyNone,
                 joy |-> PyNone, sadness |-> PyNone,
                 dominant_emotion |-> PyNone], sent, TRUE)
    ELSE LET scores == emotion_scores(emotion_results.dict)
         IN  IF ~Orderable(scores) THEN Raise("TypeError", sent, TRUE)
             ELSE Return([anger |-> scores["anger"],
                          disgust |-> scores["disgust"],
                          fear |-> scores["fear"],
                          joy |-> scores["joy"],
                          sadness |-> scores["sadness"],
                          dominant_emotion |-> PyStr(dominant_emotion(scores))],
                         sent, TRUE)

\* Lines 68-95: from the selected emotion object to the returned dict.
build_result(emotion_results, sent) ==
    IF ~IsDict(emotion_results) THEN Raise("AttributeError", sent, TRUE)
    ELSE LET scores == emotion_scores(emotion_results.dict)
         IN  IF ~Orderable(scores) THEN Raise("TypeError", sent, TRUE)
             ELSE Return([anger |-> scores["anger"],
                          disgust |-> scores["disgust"],
                          fear |-> scores["fear"],
                          joy |-> scores["joy"],
                          sadness |-> scores["sadness"],
                          dominant_emotion |-> PyStr(dominant_emotion(scores))],
                         sent, TRUE)

\* key in container, for the containers a reply can hold at top level: a
\* dict tests its keys, a list its elements (no element is a str here).
Contains(container, key) ==
    IF IsDict(container) THEN key \in DOMAIN container.dict ELSE FALSE

\* Shape B read from the last prediction instead of the first.
from_predictions_last(response_data, sent) ==
    LET predictions == response_data.dict["emotionPredictions"]
    IN  IF ~Truthy(predictions)
        THEN Raise("ValueError", sent, TRUE)
        ELSE IF IsDict(predictions) THEN Raise("KeyError", sent, TRUE)
        ELSE IF ~IsList(predictions) THEN Raise("TypeError", sent, TRUE)
        ELSE LET last == predictions.list[Len(predictions.list)]
             IN  IF ~IsDict(last) THEN Raise("TypeError", sent, TRUE)
                 ELSE IF "emotion" \in DOMAIN last.dict
                 THEN build_result(last.dict["emotion"], sent)
                 ELSE Raise("ValueError", sent, TRUE)

\* Lines 59-64: Shape B.
from_predictions(response_data, sent) ==
    LET predictions == response_data.dict["emotionPredictions"]
    IN  IF ~Truthy(predictions)
        THEN Raise("ValueError", sent, TRUE)
        ELSE IF IsDict(predictions) THEN Raise("KeyError", sent, TRUE)
        ELSE IF ~IsList(predictions) THEN Raise("TypeError", sent, TRUE)
        ELSE IF ~IsDict(predictions.list[1])
        THEN Raise("TypeError", sent, TRUE)
        ELSE IF "emotion" \in DOMAIN predictions.list[1].dict
        THEN build_result(predictions.list[1].dict["emotion"], sent)
        ELSE Raise("ValueError", sent, TRUE)

\* Lines 54-58: Shape A.
from_text(response_data, sent) ==
    LET text == response_data.dict["text"]
    IN  IF ~IsText(text) THEN Raise("TypeError", sent, TRUE)
        ELSE LET decoded == json_loads(text.text)
             IN  IF decoded.ok THEN build_result(decoded.val, sent)
                 ELSE Raise("ValueError", sent, TRUE)

\* Lines 53-66.
extract(response_data, sent) ==
    IF ~(IsDict(response_data) \/ IsList(response_data))
    THEN Raise("TypeError", sent, TRUE)
    ELSE IF Contains(response_data, "text")
    THEN from_text(response_data, sent)
    ELSE IF Contains(response_data, "emotionPredictions")
    THEN from_predictions(response_data, sent)
    ELSE Raise("ValueError", sent, TRUE)

NoneResult ==
    [anger |-> PyNone, disgust |-> PyNone, fear |-> PyNone, joy |-> PyNone,
     sadness |-> PyNone, dominant_emotion |-> PyNone]

\* A reply of the remote service is [failed |-> TRUE] when the transport
\* fails (requests.post raises), and otherwise a status code and a body;
\* the body is [invalid |-> TRUE] when it is not a JSON document, and
\* otherwise the value response.json() decodes it to.
TransportFailed(reply) == "failed" \in DOMAIN reply
BodyInvalid(body) == "invalid" \in DOMAIN body

\* requests.post tried a second time when the transport fails.
send_retry(text_to_analyze, reply) ==
    IF TransportFailed(reply)
    THEN <<post(text_to_analyze), post(text_to_analyze)>>
    ELSE <<post(text_to_analyze)>>

\* Line 32: the one requests.post call; nothing repeats it.
send(text_to_analyze, reply) == <<post(text_to_analyze)>>

\* emotion_detector with raise_for_status ahead of the test for 400.
emotion_detector_status_first(text_to_analyze, reply) ==
    LET sent == send(text_to_analyze, reply)
    IN  IF TransportFailed(reply) THEN Raise("ConnectionError", sent, FALSE)
        ELSE IF raise_for_status(reply.status_code)
        THEN Raise("HTTPError", sent, FALSE)
        ELSE IF reply.status_code = 400 THEN Return(NoneResult, sent, FALSE)
        ELSE IF BodyInvalid(reply.body)
        THEN Raise("JSONDecodeError", sent, TRUE)
        ELSE extract(reply.body, sent)

emotion_detector(text_to_analyze, reply) ==
    LET sent == send(text_to_analyze, reply)
    IN  IF TransportFailed(reply) THEN Raise("ConnectionError", sent, FALSE)
        ELSE IF reply.status_code = 400 THEN Return(NoneResult, sent, FALSE)
        ELSE IF raise_for_status(reply.status_code)
        THEN Raise("HTTPError", sent, FALSE)
        ELSE IF BodyInvalid(reply.body)
        THEN Raise("JSONDecodeError", sent, TRUE)
        ELSE extract(reply.body, sent)

(***************************************************************************)
(* server.py                                                               *)
(***************************************************************************)
EnterValid == "Please enter a valid statement."
InvalidText == "Invalid text! Please try again!"

\* str() of an interpolated value of an f-string.
format(v) ==
    IF IsInt(v) THEN ToString(v.int)
    ELSE IF IsNone(v) THEN "None"
    ELSE v.str

response_string(result) ==
    "For the given statement, the system response is 'anger': "
        \o format(result.anger)
        \o ", 'disgust': " \o format(result.disgust)
        \o ", 'fear': " \o format(result.fear)
        \o ", 'joy': " \o format(result.joy)
        \o " and 'sadness': " \o format(result.sadness)
        \o ". The dominant emotion is " \o format(result.dominant_emotion)
        \o "."

\* render_template('index.html', result=...): the page and the HTTP status.
render_template(result) ==
    [status |-> 200, template |-> "index.html", result |-> result]

\* An exception that leaves a view function: Flask answers 500 and renders
\* no page.
Unhandled(exc) == [status |-> 500, exc |-> exc]

Rendered(response) == "template" \in DOMAIN response

\* request.form.get('statement')
form_get(form, field) == IF field \in DOMAIN form THEN form[field] ELSE PyNone

\* What handling one request did: the response, and the calls of
\* emotion_detector made on the way, each with its arguments and outcome.
Call(text_to_analyze, reply) ==
    [text |-> text_to_analyze, reply |-> reply,
     out |-> emotion_detector(text_to_analyze, reply)]

Handled(response, calls) == [response |-> response, calls |-> calls]

index == Handled(render_template(PyNone), <<>>)

\* A test for the missing field only: statement is None.
is_blank_absent_only(statement) == IsNone(statement)

\* Line 40: not statement
is_blank(statement) == ~Truthy(statement)

\* The page without the test for a missing dominant_emotion.
render_result_always_sentence(result) ==
    render_template(PyStr(response_string(result)))

\* Lines 45-55: the page for a result the client returned.
render_result(result) ==
    IF IsNone(result.dominant_emotion)
    THEN render_template(PyStr(InvalidText))
    ELSE render_template(PyStr(response_string(result)))

emotion_detection_view(method, form, reply) ==
    IF method = "POST"
    THEN LET statement == form_get(form, "statement")
         IN  IF is_blank(statement)
             THEN Handled(render_template(PyStr(EnterValid)), <<>>)
             ELSE LET call == Call(statement.text, reply)
                  IN  IF Raised(call.out)
                      THEN Handled(Unhandled(call.out.exc), <<call>>)
                      ELSE Handled(render_result(call.out.ret), <<call>>)
    ELSE Handled(render_template(PyNone), <<>>)

(***************************************************************************)
(* The environment: what users submit and what the remote service answers. *)
(***************************************************************************)
Scores == 0..MaxScore

\* The values of an emotion object: a score or null.
Values == {PyInt(n) : n \in Scores} \cup {PyNone}

\* The emotion objects: any of the five keys may be missing.
Objects == UNION {[S -> Values] : S \in SUBSET KeySet}

\* json.dumps as the remote service applies it to an emotion object.
dumps_value(v) == IF IsInt(v) THEN N(v.int) ELSE NullTok

RECURSIVE dumps_members(_, _)
dumps_members(o, keys) ==
    IF Len(keys) = 0 THEN <<>>
    ELSE <<K(keys[1]), P(":"), dumps_value(o[keys[1]])>>
         \o (IF Len(keys) = 1 THEN <<>> ELSE <<P(",")>>)
         \o dumps_members(o, Tail(keys))

PresentKeys(o) == SelectSeq(EmotionKeys, LAMBDA key : key \in DOMAIN o)

json_dumps(o) == <<P("{")>> \o dumps_members(o, PresentKeys(o)) \o <<P("}")>>

\* Documents that are not the encoding of an emotion object.
OddTexts ==
    { <<>>,
      <<P("{")>>,
      <<P("{"), K("joy"), P(":"), N(MaxScore)>>,
      <<P("{"), K("joy"), P(":"), N(MaxScore), P(","), P("}")>>,
      <<P("{"), K("joy"), P(":"), N(MaxScore), P("}"), P("}")>>,
      <<P("{"), K("joy"), P(":"), P("}")>>,
      <<P("}"), P("{")>>,
      <<N(MaxScore)>>,
      <<NullTok>>,
      <<K("joy")>>,
      <<P("["), P("]")>>,
      <<P("{"), K("joy"), P(":"), N(0), P(","),
        K("joy"), P(":"), N(MaxScore), P("}")>>,
      <<P("{"), K("sadness"), P(":"), N(MaxScore), P(","),
        K("fear"), P(":"), N(MaxScore), P("}")>>,
      <<P("{"), K("surprise"), P(":"), N(MaxScore), P("}")>> }

Prediction(o) == PyDict("emotion" :> PyDict(o))

\* What may follow the first element of emotionPredictions.
LaterPredictions ==
    { <<>>,
      <<Prediction("sadness" :> PyInt(MaxScore))>>,
      <<PyDict("target" :> PyInt(0))>> }

ShapeA(text) == PyDict("text" :> text)
ShapeB(predictions) == PyDict("emotionPredictions" :> predictions)

OddBodies ==
    { [invalid |-> TRUE],
      PyDict(<<>>),
      PyDict("status" :> PyInt(0)),
      PyList(<<>>),
      PyInt(0),
      PyNone,
      ShapeA(PyInt(0)),
      ShapeA(PyNone),
      ShapeB(PyNone),
      ShapeB(PyList(<<>>)),
      ShapeB(PyList(<<PyDict("target" :> PyInt(0))>>)),
      ShapeB(PyList(<<PyDict("target" :> PyInt(0)),
                      Prediction("joy" :> PyInt(MaxScore))>>)),
      ShapeB(PyList(<<PyInt(0)>>)),
      ShapeB(Prediction("joy" :> PyInt(MaxScore))),
      ShapeB(PyList(<<PyDict("emotion" :> PyInt(0))>>)),
      PyDict(("text" :> PyText(json_dumps("joy" :> PyInt(MaxScore))))
             @@ ("emotionPredictions" :>
                    PyList(<<Prediction("anger" :> PyInt(MaxScore))>>))),
      PyDict(("text" :> PyText(<<P("{")>>))
             @@ ("emotionPredictions" :>
                    PyList(<<Prediction("anger" :> PyInt(MaxScore))>>))) }

Bodies ==
    {ShapeA(PyText(json_dumps(o))) : o \in Objects}
    \cup {ShapeA(PyText(t)) : t \in OddTexts}
    \cup {ShapeB(PyList(<<Prediction(o)>> \o later)) :
              o \in Objects, later \in LaterPredictions}
    \cup OddBodies

\* A few bodies of each shape, for replies whose body is not parsed.
SomeBodies ==
    OddBodies
    \cup {ShapeA(PyText(json_dumps("joy" :> PyInt(MaxScore)))),
          ShapeB(PyList(<<Prediction("fear" :> PyInt(MaxScore))>>))}

\* The final status codes of a reply (requests follows redirects, so a 3xx
\* is final only without a Location, as 304 is).
ErrorStatuses == {401, 404, 422, 499, 500, 503, 599}
OtherStatuses == {201, 304}

Response(status_code, body) == [status_code |-> status_code, body |-> body]

Replies ==
    {[failed |-> TRUE]}
    \cup {Response(200, body) : body \in Bodies}
    \cup {Response(status_code, body) :
              status_code \in {400} \cup ErrorStatuses \cup OtherStatuses,
              body \in SomeBodies}

Alphabet == {" ", "x"}

RECURSIVE Strings(_)
Strings(n) ==
    IF n = 0 THEN {<<>>}
    ELSE Strings(n - 1)
         \cup {Append(s, c) : s \in {t \in Strings(n - 1) : Len(t) = n - 1},
                              c \in Alphabet}

Statements == Strings(MaxStatement)

\* request.form: with or without the statement field.
Forms == {<<>>} \cup {"statement" :> PyText(s) : s \in Statements}

IndexRequest == [route |-> "/"]
ViewRequest(method, form, reply) ==
    [route |-> "/emotionDetector", method |-> method, form |-> form,
     reply |-> reply]
DirectCall(text_to_analyze, reply) ==
    [call |-> "emotion_detector", text |-> text_to_analyze, reply |-> reply]

\* Replies for the requests that never reach the remote service.
SomeReplies ==
    {[failed |-> TRUE]}
    \cup {Response(status_code, body) :
              status_code \in {200, 400}, body \in SomeBodies}

IsBlank(form) == "statement" \notin DOMAIN form \/ form["statement"].text = <<>>

(***************************************************************************)
(* The state machine: requests arrive in pending and are served in order;  *)
(* log records what serving each one did.  Nothing else survives a         *)
(* request: the program keeps no state of its own.                         *)
(***************************************************************************)
Init ==
    /\ \/ pending = <<IndexRequest>>
       \/ \E form \in Forms, reply \in SomeReplies :
              pending = <<ViewRequest("GET", form, reply)>>
       \/ \E form \in {f \in Forms : IsBlank(f)}, reply \in SomeReplies :
              pending = <<ViewRequest("POST", form, reply)>>
       \/ \E form \in {f \in Forms : ~IsBlank(f)}, reply \in Replies :
              pending = <<ViewRequest("POST", form, reply)>>
       \/ \E text \in Statements, reply \in Replies :
              pending = <<DirectCall(text, reply)>>
    /\ log = <<>>

IsIndex(request) == "route" \in DOMAIN request /\ request.route = "/"
IsView(request) ==
    "route" \in DOMAIN request /\ request.route = "/emotionDetector"
IsDirect(request) == "call" \in DOMAIN request

Entry(request, handled) ==
    [request |-> request, response |-> handled.response,
     calls |-> handled.calls]

ServeIndex ==
    /\ pending # <<>>
    /\ IsIndex(Head(pending))
    /\ log' = Append(log, Entry(Head(pending), index))
    /\ pending' = Tail(pending)

ServeEmotionDetector ==
    /\ pending # <<>>
    /\ IsView(Head(pending))
    /\ LET request == Head(pending)
       IN  log' = Append(log, Entry(request,
                     emotion_detection_view(request.method, request.form,
                                            request.reply)))
    /\ pending' = Tail(pending)

\* A caller other than the server, as the unit tests are: the outcome of the
\* call is all there is, an exception is the caller's to handle.
direct(text_to_analyze, reply) ==
    LET call == Call(text_to_analyze, reply)
    IN  Handled(IF Raised(call.out) THEN Unhandled(call.out.exc)
                ELSE [status |-> 0, value |-> call.out.ret],
                <<call>>)

CallEmotionDetector ==
    /\ pending # <<>>
    /\ IsDirect(Head(pending))
    /\ LET request == Head(pending)
       IN  log' = Append(log, Entry(request,
                                    direct(request.text, request.reply)))
    /\ pending' = Tail(pending)

Next == ServeIndex \/ ServeEmotionDetector \/ CallEmotionDetector

Spec == Init /\ [][Next]_vars

\* Two requests, one after the other, out of a small set of each kind.
PairReplies ==
    {[failed |-> TRUE], Response(400, PyDict(<<>>)), Response(404, PyDict(<<>>)),
     Response(200, [invalid |-> TRUE]),
     Response(200, ShapeA(PyText(<<N(MaxScore)>>))),
     Response(200, ShapeA(PyText(json_dumps("joy" :> PyInt(MaxScore))))),
     Response(200, ShapeA(PyText(json_dumps(<<>>)))),
     Response(200, ShapeB(PyList(<<Prediction("fear" :> PyInt(MaxScore))>>))),
     Response(200, ShapeB(PyList(<<Prediction(("anger" :> PyInt(MaxScore))
                                     @@ ("sadness" :> PyInt(MaxScore)))>>)))}

PairRequests ==
    {IndexRequest}
    \cup {ViewRequest("POST", "statement" :> PyText(<<"x">>), reply) :
              reply \in PairReplies}
    \cup {DirectCall(text, reply) :
              text \in {<<>>, <<"x">>}, reply \in PairReplies}

InitPair ==
    /\ \E first \in PairRequests, second \in PairRequests :
           pending = <<first, second>>
    /\ log = <<>>

SpecPair == InitPair /\ [][Next]_vars

(***************************************************************************)
(* Properties.  The spec's RemoteServiceError and MalformedResponseError   *)
(* are read as the exceptions the code raises for them: requests'          *)
(* exceptions for the first, ValueError (of which a JSON decode error is a *)
(* subclass) for the second.                                               *)
(***************************************************************************)
RemoteServiceError == {"ConnectionError", "HTTPError"}
MalformedResponseError == {"ValueError", "JSONDecodeError"}

Answered(reply) == ~TransportFailed(reply)
StatusIn(reply, lo, hi) ==
    Answered(reply) /\ reply.status_code >= lo /\ reply.status_code <= hi
IsSuccess(reply) == StatusIn(reply, 200, 299)
Is400(reply) == StatusIn(reply, 400, 400)

Served == 1..Len(log)
CallsAt(i) == 1..Len(log[i].calls)
IsPost(request) == IsView(request) /\ request.method = "POST"

KeyIndex(key) == CHOOSE i \in 1..Len(EmotionKeys) : EmotionKeys[i] = key

\* The result r names key as dominant, key's score is a maximum, and no
\* earlier key has the same score.
FirstMaximum(r, key) ==
    /\ r.dominant_emotion = PyStr(key)
    /\ \A other \in KeySet : IsInt(r[other])
    /\ \A other \in KeySet : r[key].int >= r[other].int
    /\ \A other \in KeySet :
           r[other].int = r[key].int => KeyIndex(key) <= KeyIndex(other)

\* C1: every result returned for a success response names as
\* dominant_emotion one of the five keys, whose score is at least every other
\* score and which is the earliest key, in the order anger, disgust, fear,
\* joy, sadness, among those with the maximum score.
C1_DominantIsFirstMaximum ==
    \A i \in Served : \A j \in CallsAt(i) :
        LET c == log[i].calls[j]
        IN  (IsSuccess(c.reply) /\ Returned(c.out))
                => \E key \in KeySet : FirstMaximum(c.out.ret, key)

\* A returned result where disgust and joy tie for the maximum and anger is
\* lower: disgust is named.
C1_Witness ==
    \E i \in Served : \E j \in CallsAt(i) :
        LET c == log[i].calls[j]
        IN  /\ IsSuccess(c.reply) /\ Returned(c.out)
            /\ c.out.ret.disgust = PyInt(MaxScore)
            /\ c.out.ret.joy = PyInt(MaxScore)
            /\ c.out.ret.anger = PyInt(0)
            /\ c.out.ret.dominant_emotion = PyStr("disgust")

\* C2: a reply with status 400 makes emotion_detector return, not raise,
\* the result whose five scores and dominant_emotion are all None, whatever
\* the body is and without parsing it.
C2_Status400ReturnsNone ==
    \A i \in Served : \A j \in CallsAt(i) :
        LET c == log[i].calls[j]
        IN  Is400(c.reply)
                => /\ Returned(c.out)
                   /\ c.out.ret = NoneResult
                   /\ ~c.out.json_read

\* A 400 whose body is a well-formed Shape A document has been answered.
C2_Witness ==
    \E i \in Served : \E j \in CallsAt(i) :
        LET c == log[i].calls[j]
        IN  /\ Is400(c.reply)
            /\ c.reply.body
                   = ShapeA(PyText(json_dumps("joy" :> PyInt(MaxScore))))
            /\ Returned(c.out)

\* C3: a POST to /emotionDetector whose statement is absent or empty renders
\* "Please enter a valid statement." and never invokes emotion_detector, so
\* no outbound call is made.
C3_BlankNeverCallsClient ==
    \A i \in Served :
        (IsPost(log[i].request) /\ IsBlank(log[i].request.form))
            => /\ log[i].response = render_template(PyStr(EnterValid))
               /\ log[i].calls = <<>>

\* A POST whose statement field is present and empty has been served.
C3_Witness ==
    \E i \in Served :
        /\ IsPost(log[i].request)
        /\ "statement" \in DOMAIN log[i].request.form
        /\ log[i].request.form["statement"] = PyText(<<>>)
        /\ log[i].response.result = PyStr(EnterValid)

\* C4: a POST with a non-blank statement for which emotion_detector returns
\* a result without dominant_emotion renders "Invalid text! Please try
\* again!" and not the sentence of scores.
C4_NoDominantRendersInvalidText ==
    \A i \in Served : \A j \in CallsAt(i) :
        LET c == log[i].calls[j]
        IN  (IsPost(log[i].request) /\ Returned(c.out)
             /\ IsNone(c.out.ret.dominant_emotion))
                => /\ log[i].response = render_template(PyStr(InvalidText))
                   /\ log[i].response.result
                          # PyStr(response_string(c.out.ret))

\* A POST answered 400 by the remote service has been served.
C4_Witness ==
    \E i \in Served : \E j \in CallsAt(i) :
        /\ IsPost(log[i].request)
        /\ Is400(log[i].calls[j].reply)
        /\ Rendered(log[i].response)

\* The value a document encodes for key, read off its characters: the value
\* after the last occurrence of the key, 0 when the key does not occur.
Occurrences(toks, key) == {n \in 1..Len(toks) : toks[n] = K(key)}
Last(S) == CHOOSE n \in S : \A m \in S : m <= n
EncodedValue(toks, key) ==
    IF Occurrences(toks, key) = {} THEN PyInt(0)
    ELSE LET v == toks[Last(Occurrences(toks, key)) + 2]
         IN  IF "n" \in DOMAIN v THEN PyInt(v.n) ELSE PyNone

HasText(body) == IsDict(body) /\ "text" \in DOMAIN body.dict
HasPredictions(body) ==
    IsDict(body) /\ "emotionPredictions" \in DOMAIN body.dict

\* C5: for a success response, the five returned scores are the values of
\* the five keys, 0 for a missing key, in the object encoded by the text
\* field when the body has one, and otherwise in the emotion object of the
\* first element of emotionPredictions, whatever the later elements hold.
C5_ScoresAreSelectedObject ==
    \A i \in Served : \A j \in CallsAt(i) :
        LET c == log[i].calls[j]
            body == c.reply.body
        IN  (IsSuccess(c.reply) /\ Returned(c.out))
                => \/ /\ HasText(body)
                      /\ \A key \in KeySet :
                             c.out.ret[key]
                                 = EncodedValue(body.dict["text"].text, key)
                   \/ /\ ~HasText(body)
                      /\ HasPredictions(body)
                      /\ LET emotion == body.dict["emotionPredictions"]
                                            .list[1].dict["emotion"].dict
                         IN  \A key \in KeySet :
                                 c.out.ret[key]
                                     = IF key \in DOMAIN emotion
                                       THEN emotion[key] ELSE PyInt(0)

\* A Shape B response of two predictions, the second scoring sadness at the
\* maximum and the first not scoring it at all, has been answered: the
\* returned sadness is 0.
C5_Witness ==
    \E i \in Served : \E j \in CallsAt(i) :
        LET c == log[i].calls[j]
            body == c.reply.body
        IN  /\ IsSuccess(c.reply) /\ Returned(c.out)
            /\ ~HasText(body) /\ HasPredictions(body)
            /\ Len(body.dict["emotionPredictions"].list) = 2
            /\ body.dict["emotionPredictions"].list[2]
                   = Prediction("sadness" :> PyInt(MaxScore))
            /\ "sadness" \notin DOMAIN body.dict["emotionPredictions"]
                                           .list[1].dict["emotion"].dict
            /\ c.out.ret.sadness = PyInt(0)
            /\ c.out.ret.joy = PyInt(MaxScore)

\* The payloads C6 lists: neither field present; emotionPredictions empty or
\* its first element without emotion; text not decodable, or decoding to
\* something that is not an object.
MalformedPayload(body) ==
    /\ IsDict(body)
    /\ \/ ~HasText(body) /\ ~HasPredictions(body)
       \/ /\ ~HasText(body) /\ HasPredictions(body)
          /\ IsList(body.dict["emotionPredictions"])
          /\ LET predictions == body.dict["emotionPredictions"].list
             IN  \/ Len(predictions) = 0
                 \/ /\ IsDict(predictions[1])
                    /\ "emotion" \notin DOMAIN predictions[1].dict
       \/ /\ HasText(body) /\ IsText(body.dict["text"])
          /\ LET decoded == json_loads(body.dict["text"].text)
             IN  ~decoded.ok \/ ~IsDict(decoded.val)

\* C6: a success response with a malformed payload makes emotion_detector
\* fail with MalformedResponseError; it returns nothing.
C6_MalformedRaisesMalformedResponseError ==
    \A i \in Served : \A j \in CallsAt(i) :
        LET c == log[i].calls[j]
        IN  (IsSuccess(c.reply) /\ MalformedPayload(c.reply.body))
                => /\ Raised(c.out)
                   /\ c.out.exc \in MalformedResponseError

\* C7 as stated: every status that is neither a success (2xx) nor 400 makes
\* emotion_detector fail with RemoteServiceError before the body is read,
\* and the view renders no page.
C7_EveryNonSuccessStatusRaises ==
    \A i \in Served : \A j \in CallsAt(i) :
        LET c == log[i].calls[j]
        IN  (Answered(c.reply) /\ ~IsSuccess(c.reply) /\ ~Is400(c.reply))
                => /\ Raised(c.out)
                   /\ c.out.exc \in RemoteServiceError
                   /\ ~c.out.json_read
                   /\ ~Rendered(log[i].response)

\* C7, amended: every status from 401 to 599 makes emotion_detector fail
\* with HTTPError before the body is read; the view does not catch it and
\* renders no page, neither a message nor the sentence of scores.
C7_ErrorStatusRaises ==
    \A i \in Served : \A j \in CallsAt(i) :
        LET c == log[i].calls[j]
        IN  StatusIn(c.reply, 401, 599)
                => /\ Raised(c.out)
                   /\ c.out.exc = "HTTPError"
                   /\ c.out.exc \in RemoteServiceError
                   /\ ~c.out.json_read
                   /\ log[i].response = Unhandled("HTTPError")
                   /\ ~Rendered(log[i].response)

\* A POST answered 404 by the remote service has been served with a 500.
C7_Witness ==
    \E i \in Served : \E j \in CallsAt(i) :
        /\ IsPost(log[i].request)
        /\ StatusIn(log[i].calls[j].reply, 404, 404)
        /\ log[i].response.status = 500

\* C9: every call of emotion_detector makes exactly one outbound call,
\* carrying its text, whatever the text and however the call ends; a POST
\* with a non-blank statement calls emotion_detector once and so makes
\* exactly one outbound call.
C9_ExactlyOneOutboundCall ==
    \A i \in Served :
        /\ \A j \in CallsAt(i) :
               LET c == log[i].calls[j]
               IN  c.out.sent = <<post(c.text)>>
        /\ (IsPost(log[i].request) /\ ~IsBlank(log[i].request.form))
               => /\ Len(log[i].calls) = 1
                  /\ Len(log[i].calls[1].out.sent) = 1
        /\ IsDirect(log[i].request) => Len(log[i].calls) = 1

\* emotion_detector has been called with the empty string and the transport
\* failed: one call went out, carrying the empty text.
C9_Witness ==
    \E i \in Served : \E j \in CallsAt(i) :
        LET c == log[i].calls[j]
        IN  /\ c.text = <<>>
            /\ TransportFailed(c.reply)
            /\ Raised(c.out) /\ c.out.exc = "ConnectionError"
            /\ Len(c.out.sent) = 1
            /\ c.out.sent[1].json.raw_document.text = <<>>

AllZeroSentence ==
    "For the given statement, the system response is 'anger': 0, 'disgust': 0, 'fear': 0, 'joy': 0 and 'sadness': 0. The dominant emotion is anger."

\* C10: a returned result lacks dominant_emotion exactly when the status
\* was 400; every other returned result has a dominant_emotion among the
\* five keys and five scores that are not None; and the view renders
\* "Invalid text! Please try again!" exactly for a 400 and the sentence of
\* scores for every other returned result.
C10_AbsentIffStatus400 ==
    \A i \in Served : \A j \in CallsAt(i) :
        LET c == log[i].calls[j]
        IN  Returned(c.out)
                => /\ IsNone(c.out.ret.dominant_emotion) <=> Is400(c.reply)
                   /\ ~Is400(c.reply)
                          => /\ \E key \in KeySet :
                                    c.out.ret.dominant_emotion = PyStr(key)
                             /\ \A key \in KeySet : ~IsNone(c.out.ret[key])
                   /\ IsPost(log[i].request)
                          => /\ Rendered(log[i].response)
                             /\ log[i].response.result = PyStr(InvalidText)
                                    <=> Is400(c.reply)
                             /\ ~Is400(c.reply)
                                    => log[i].response.result
                                           = PyStr(response_string(c.out.ret))

\* A POST answered with an empty emotion object has been served: all scores
\* are 0, anger is dominant, and the sentence says so.
C10_Witness ==
    \E i \in Served : \E j \in CallsAt(i) :
        LET c == log[i].calls[j]
        IN  /\ IsPost(log[i].request)
            /\ c.reply = Response(200, ShapeB(PyList(<<Prediction(<<>>)>>)))
            /\ Returned(c.out)
            /\ c.out.ret.dominant_emotion = PyStr("anger")
            /\ log[i].response.result = PyStr(AllZeroSentence)

\* All the calls of emotion_detector made so far, with where they are in
\* the log.
CallSites == {<<i, j>> \in Served \X {1} : j \in CallsAt(i)}

====
